---- MODULE Spec2Model ----
(***************************************************************************)
(* Model of the wheel picker: the Picker root (option registry and value   *)
(* store), the Picker.Column scroll controller and the Picker.Item binder. *)
(*                                                                         *)
(* Lengths (heights, offsets, pointer positions) are integers counting     *)
(* HALF pixels, so that height/2, itemHeight/2 and selectedItemHeight/2    *)
(* of integer pixel props are exact.  The configuration record keeps the   *)
(* props in whole pixels, as the caller passes them.                       *)
(***************************************************************************)
EXTENDS Integers, Sequences, FiniteSets, TLC

VARIABLES
  props,                  \* the props the owner passes to PickerRoot: each <<v>>, or <<>> when omitted
  setup,                  \* the last component rendered under ancestors of its own, and the error it threw
  cfg,                    \* PickerRoot props after destructuring: height, itemHeight, selectedItemHeight, topOffset, wheelMode
  value,                  \* PickerRoot prop `value`: the owner's mapping key -> selected value
  focusedValue,           \* transient focus mapping published by focusChange
  dom,                    \* per column key: the mounted item nodes in document order
  itemOpt,                \* per item: the option object its registerOption effect created
  optionGroups,           \* useReducer state of PickerRoot
  mounted,                \* the column is mounted
  scrollerTranslate,      \* PickerColumn state
  startScrollerTranslate, \* PickerColumn state
  startTouchY,            \* PickerColumn state
  isMoving,               \* PickerColumn state
  wheelingTimer,          \* PickerColumn ref: id of the last timer set, 0 for null
  timers,                 \* pending setTimeout callbacks, each with the closure it captured
  touch,                  \* the input device: is a finger down, and the offset when it went down
  lastOp,                 \* the last event handled, its input and whether the handler threw
  calls                   \* the calls of change() made while handling the last event

vars == <<props, setup, cfg, value, focusedValue, dom, itemOpt, optionGroups, mounted,
          scrollerTranslate, startScrollerTranslate, startTouchY, isMoving,
          wheelingTimer, timers, touch, lastOp, calls>>

configVars == <<props, setup, cfg>>
registryVars == <<dom, itemOpt, optionGroups>>
gestureVars == <<startScrollerTranslate, startTouchY, isMoving, touch>>
timerVars == <<wheelingTimer, timers>>

-----------------------------------------------------------------------------
(* Bounds of the model *)

MaxOptions == 2
MaxDragOptions == 5
MaxMounted == 2
MaxPointer == 4
MaxGeometry == 3
MaxOverscroll == 5

(* Program constants *)

DEFAULT_HEIGHT == 216
DEFAULT_ITEM_HEIGHT == 36
DEFAULT_WHEEL_MODE == "off"

-----------------------------------------------------------------------------
(* Universe *)

Keys == {"a", "b"}
\* the key of the column whose scroll controller is modelled
ColKey == "a"
Items == 1 .. (IF MaxDragOptions > MaxMounted THEN MaxDragOptions ELSE MaxMounted)
NoOption == [id |-> 0, value |-> 0, element |-> 0]
WheelModes == {"off", "natural", "normal"}

Range(s) == {s[j] : j \in 1 .. Len(s)}

Abs(x) == IF x < 0 THEN 0 - x ELSE x
Sign(x) == IF x < 0 THEN 0 - 1 ELSE IF x > 0 THEN 1 ELSE 0

-----------------------------------------------------------------------------
(* Geometry of a column, in half pixels *)

\* minTranslate with the half item height subtracted instead of added
MinTranslateLow(c, n) ==
  c.height - 2 * c.itemHeight * n - c.itemHeight - 2 * c.topOffset

MinTranslate(c, n) ==
  c.height - 2 * c.itemHeight * n + c.itemHeight - 2 * c.topOffset

MaxTranslate(c) ==
  c.height - c.selectedItemHeight - 2 * c.topOffset

\* the offset the settle effect and handleScrollerTranslateSettled set for an index
SettleTranslate(c, index) ==
  c.height - c.selectedItemHeight - 2 * index * c.itemHeight - 2 * c.topOffset

\* Math.floor(num / den) for den > 0, in the place of Math.round
MathFloor(num, den) == num \div den

\* Math.round(num / den) for den > 0: halves round towards +Infinity
MathRound(num, den) == (2 * num + den) \div (2 * den)

\* nextActiveIndex without the sign change of the rounded quotient
NextActiveIndexUnsigned(c, n, currentTrans) ==
  IF currentTrans >= MaxTranslate(c) THEN 0
  ELSE IF currentTrans <= MinTranslate(c, n) THEN n - 1
  ELSE MathRound(currentTrans - MaxTranslate(c), 2 * c.itemHeight)

\* nextActiveIndex of handleScrollerTranslateSettled / ...Updating (0-based)
NextActiveIndex(c, n, currentTrans) ==
  IF currentTrans >= MaxTranslate(c) THEN 0
  ELSE IF currentTrans <= MinTranslate(c, n) THEN n - 1
  ELSE 0 - MathRound(currentTrans - MaxTranslate(c), 2 * c.itemHeight)

\* a / b <= c / d for a, c >= 0 and b, d > 0, by continued fractions (no product
\* is formed, so no intermediate value exceeds the arguments)
RECURSIVE FracLeq(_, _, _, _)
FracLeq(a, b, c, d) ==
  IF a \div b < c \div d THEN TRUE
  ELSE IF a \div b > c \div d THEN FALSE
  ELSE IF a % b = 0 THEN TRUE
  ELSE IF c % d = 0 THEN FALSE
  ELSE FracLeq(d, c % d, b, a % b)

\* Math.pow(d, 0.8) of a distance d >= 0, both in half pixels, rounded down
\* to the half-pixel grid: the largest r with (r/2)^5 <= (d/2)^4, that is
\* r^3 / d^2 <= 2 d^2 / r^2
MathPow08(d) ==
  IF d = 0 THEN 0
  ELSE CHOOSE r \in 1 .. d :
         /\ FracLeq(r * r * r, d * d, 2 * d * d, r * r)
         /\ ~FracLeq((r + 1) * (r + 1) * (r + 1), d * d, 2 * d * d, (r + 1) * (r + 1))

\* the value updateScrollerWhileMoving passes to setScrollerTranslate
UpdateScrollerWhileMoving(c, n, nextScrollerTranslate) ==
  IF nextScrollerTranslate < MinTranslate(c, n)
  THEN MinTranslate(c, n) - MathPow08(MinTranslate(c, n) - nextScrollerTranslate)
  ELSE IF nextScrollerTranslate > MaxTranslate(c)
  THEN MaxTranslate(c) + MathPow08(nextScrollerTranslate - MaxTranslate(c))
  ELSE nextScrollerTranslate

\* selectedIndex of PickerColumn (0-based): first option with the value, else 0
SelectedIndex(options, v) ==
  IF \E j \in 1 .. Len(options) : options[j].value = v
  THEN (CHOOSE j \in 1 .. Len(options) :
          /\ options[j].value = v
          /\ \A h \in 1 .. (j - 1) : options[h].value # v) - 1
  ELSE 0

\* delta of handleWheeling in half pixels, for a deltaY (pixels, multiple of 5)
WheelDelta(c, deltaY) ==
  LET scaled == (2 * deltaY) \div 10
      floored == IF Abs(scaled) < 2 * c.itemHeight
                 THEN 2 * c.itemHeight * Sign(scaled)
                 ELSE scaled
  IN IF c.wheelMode = "normal" THEN 0 - floored ELSE floored

-----------------------------------------------------------------------------
(* Value store of PickerRoot *)

\* triggerChange without the test for an unchanged value
TriggerChangeAlways(M, key, nextValue) ==
  [ret |-> TRUE, cb |-> <<[value |-> [M EXCEPT ![key] = nextValue], key |-> key]>>]

\* triggerChange closed over the mapping M of the render that created it:
\* the returned boolean and the onChange callbacks it makes
TriggerChange(M, key, nextValue) ==
  IF M[key] = nextValue
  THEN [ret |-> FALSE, cb |-> <<>>]
  ELSE [ret |-> TRUE,
        cb |-> <<[value |-> [M EXCEPT ![key] = nextValue], key |-> key]>>]

\* the record of one change() call kept in `calls`
CallRecord(M, key, nextValue) ==
  [M |-> M, key |-> key, v |-> nextValue,
   ret |-> TriggerChange(M, key, nextValue).ret,
   cb |-> TriggerChange(M, key, nextValue).cb]

\* the owner receives onChange(next, key) and either feeds `next` back as the
\* value prop or leaves the prop alone
OwnerValues(callSeq) ==
  {value} \cup {callSeq[j].cb[1].value : j \in {h \in 1 .. Len(callSeq) : callSeq[h].cb # <<>>}}

\* focusChange(key, v) of the actions context: publishes the transient focus
FocusChange(F, key, v) == [F EXCEPT ![key] = v]

-----------------------------------------------------------------------------
(* Option registry of PickerRoot *)

\* position of a node in document order, 0 when the ref holds null
DomPos(d, el) ==
  IF \E j \in 1 .. Len(d) : d[j] = el
  THEN CHOOSE j \in 1 .. Len(d) : d[j] = el
  ELSE 0

\* the comparator sortByDomNode hands to Array.prototype.sort
CompareDomNode(d, aItem, zItem) ==
  LET a == DomPos(d, aItem.element)
      z == DomPos(d, zItem.element)
  IN IF a = 0 \/ z = 0 THEN 0
     ELSE IF z > a THEN 0 - 1
     ELSE IF z < a THEN 1
     ELSE 0

\* sortByDomNode that returns the array in the order it was given
SortByDomNodeUnsorted(nodes, d) == nodes

\* nodes.slice().sort(comparator): a stable insertion sort
RECURSIVE SortByDomNode(_, _)
SortByDomNode(nodes, d) ==
  IF nodes = <<>> THEN <<>>
  ELSE LET rest == SortByDomNode(SubSeq(nodes, 1, Len(nodes) - 1), d)
           x == nodes[Len(nodes)]
           p == Cardinality({j \in 1 .. Len(rest) : CompareDomNode(d, rest[j], x) <= 0})
       IN SubSeq(rest, 1, p) \o <<x>> \o SubSeq(rest, p + 1, Len(rest))

\* a filter that removes every option with the value of the given one
FilterOutByValue(options, option) ==
  LET keep == {j \in 1 .. Len(options) : options[j].value # option.value}
      F[j \in 0 .. Len(options)] ==
        IF j = 0 THEN <<>>
        ELSE IF j \in keep THEN Append(F[j - 1], options[j]) ELSE F[j - 1]
  IN F[Len(options)]

\* Array.prototype.filter((o) => o !== option): removal by object identity
FilterOut(options, option) ==
  LET keep == {j \in 1 .. Len(options) : options[j].id # option.id}
      F[j \in 0 .. Len(options)] ==
        IF j = 0 THEN <<>>
        ELSE IF j \in keep THEN Append(F[j - 1], options[j]) ELSE F[j - 1]
  IN F[Len(options)]

\* pickerReducer; d is the document order at the time the reducer runs
PickerReducer(groups, action, d) ==
  IF action.type = "REGISTER_OPTION"
  THEN [groups EXCEPT ![action.key] =
          SortByDomNode(Append(groups[action.key], action.option), d[action.key])]
  ELSE [groups EXCEPT ![action.key] = FilterOut(groups[action.key], action.option)]

\* a new object: an identity no live option has
NewOptionId ==
  CHOOSE i \in 1 .. (Cardinality(Items) + 1) :
    /\ \A it \in Items : itemOpt[it].id # i
    /\ \A h \in 1 .. (i - 1) : \E it \in Items : itemOpt[it].id = h

MountedItems(k) == Range(dom[k])
Unmounted == {it \in Items : \A k \in Keys : it \notin MountedItems(k)}
KeyOf(it) == CHOOSE k \in Keys : it \in MountedItems(k)

InsertAt(s, pos, x) == SubSeq(s, 1, pos - 1) \o <<x>> \o SubSeq(s, pos, Len(s))
RemoveItem(s, x) ==
  LET F[j \in 0 .. Len(s)] ==
        IF j = 0 THEN <<>>
        ELSE IF s[j] # x THEN Append(F[j - 1], s[j]) ELSE F[j - 1]
  IN F[Len(s)]

-----------------------------------------------------------------------------
(* Rendering: after every handler React re-renders the column; the settle   *)
(* effect runs when selectedIndex differs from the one of the last render.  *)

SettleEffect(nextGroups, nextValue, translate) ==
  LET old == SelectedIndex(optionGroups[ColKey], value[ColKey])
      new == SelectedIndex(nextGroups[ColKey], nextValue[ColKey])
  IN IF mounted /\ new # old THEN SettleTranslate(cfg, new) ELSE translate

Op(name, y, threw) == [op |-> name, y |-> y, threw |-> threw]

-----------------------------------------------------------------------------
(* Picker.Column: settle *)

\* handleScrollerTranslateSettled without the local snap when change() declines
HandleScrollerTranslateSettledNoSnap(options, M) ==
  LET index == NextActiveIndex(cfg, Len(options), scrollerTranslate)
  IN IF index + 1 \notin 1 .. Len(options)
     THEN [threw |-> TRUE, calls |-> <<>>, translate |-> scrollerTranslate]
     ELSE [threw |-> FALSE,
           calls |-> <<CallRecord(M, ColKey, options[index + 1].value)>>,
           translate |-> scrollerTranslate]

\* handleScrollerTranslateSettled of the render that saw `options` and whose
\* change() was closed over the mapping M; translateRef.current is the offset
\* of the latest render.  options[nextActiveIndex] of an index outside the
\* array is undefined and reading its .value throws.
HandleScrollerTranslateSettled(options, M) ==
  LET index == NextActiveIndex(cfg, Len(options), scrollerTranslate)
  IN IF index + 1 \notin 1 .. Len(options)
     THEN [threw |-> TRUE, calls |-> <<>>, translate |-> scrollerTranslate]
     ELSE LET call == CallRecord(M, ColKey, options[index + 1].value)
          IN [threw |-> FALSE,
              calls |-> <<call>>,
              translate |-> IF call.ret THEN scrollerTranslate
                            ELSE SettleTranslate(cfg, index)]

\* handleScrollerTranslateUpdating: the focus mapping after it ran, and whether it threw
HandleScrollerTranslateUpdating(options) ==
  LET index == NextActiveIndex(cfg, Len(options), scrollerTranslate)
  IN IF index + 1 \notin 1 .. Len(options)
     THEN [threw |-> TRUE, focused |-> focusedValue]
     ELSE [threw |-> FALSE,
           focused |-> FocusChange(focusedValue, ColKey, options[index + 1].value)]

-----------------------------------------------------------------------------
(* Picker.Column: touch events.  Pointer positions lie on a grid of half    *)
(* item heights.                                                            *)

PointerYs == {m * cfg.itemHeight : m \in 0 .. MaxPointer}

TouchStart(y) ==
  /\ mounted /\ ~touch.down
  /\ startTouchY' = y
  /\ startScrollerTranslate' = scrollerTranslate
  /\ touch' = [down |-> TRUE, startOffset |-> scrollerTranslate]
  /\ lastOp' = Op("touchstart", 0, FALSE)
  /\ calls' = <<>>
  /\ UNCHANGED <<configVars, value, focusedValue, registryVars, mounted,
                 scrollerTranslate, isMoving, timerVars>>

TouchMove(y) ==
  /\ mounted /\ touch.down
  /\ isMoving' = TRUE
  /\ scrollerTranslate' =
       UpdateScrollerWhileMoving(cfg, Len(optionGroups[ColKey]),
                                 startScrollerTranslate + y - startTouchY)
  /\ focusedValue' = HandleScrollerTranslateUpdating(optionGroups[ColKey]).focused
  /\ lastOp' = Op("touchmove", y, HandleScrollerTranslateUpdating(optionGroups[ColKey]).threw)
  /\ calls' = <<>>
  /\ UNCHANGED <<configVars, value, registryVars, mounted, startScrollerTranslate,
                 startTouchY, touch, timerVars>>

TouchEnd ==
  /\ mounted /\ touch.down
  /\ touch' = [down |-> FALSE, startOffset |-> 0]
  /\ IF ~isMoving
     THEN /\ lastOp' = Op("touchend", 0, FALSE)
          /\ calls' = <<>>
          /\ UNCHANGED <<value, scrollerTranslate, startScrollerTranslate,
                         startTouchY, isMoving>>
     ELSE LET s == HandleScrollerTranslateSettled(optionGroups[ColKey], value)
          IN /\ isMoving' = FALSE
             /\ startTouchY' = 0
             /\ startScrollerTranslate' = 0
             /\ calls' = s.calls
             /\ value' \in OwnerValues(s.calls)
             /\ scrollerTranslate' = SettleEffect(optionGroups, value', s.translate)
             /\ lastOp' = Op("touchend", 0, s.threw)
  /\ UNCHANGED <<configVars, focusedValue, registryVars, mounted, timerVars>>

\* handleTouchCancel that leaves the offset where the drag took it
TouchCancelKeepsOffset ==
  /\ mounted /\ touch.down
  /\ touch' = [down |-> FALSE, startOffset |-> 0]
  /\ lastOp' = Op("touchcancel", 0, FALSE)
  /\ calls' = <<>>
  /\ IF ~isMoving
     THEN UNCHANGED <<scrollerTranslate, startScrollerTranslate, startTouchY, isMoving>>
     ELSE /\ isMoving' = FALSE
          /\ startTouchY' = 0
          /\ scrollerTranslate' = scrollerTranslate
          /\ startScrollerTranslate' = 0
  /\ UNCHANGED <<configVars, value, focusedValue, registryVars, mounted, timerVars>>

TouchCancel ==
  /\ mounted /\ touch.down
  /\ touch' = [down |-> FALSE, startOffset |-> 0]
  /\ lastOp' = Op("touchcancel", 0, FALSE)
  /\ calls' = <<>>
  /\ IF ~isMoving
     THEN UNCHANGED <<scrollerTranslate, startScrollerTranslate, startTouchY, isMoving>>
     ELSE /\ isMoving' = FALSE
          /\ startTouchY' = 0
          /\ scrollerTranslate' = startScrollerTranslate
          /\ startScrollerTranslate' = 0
  /\ UNCHANGED <<configVars, value, focusedValue, registryVars, mounted, timerVars>>

-----------------------------------------------------------------------------
(* Picker.Column: wheel events and the debounce timer *)

\* deltaY of the wheel events: none, a small one (less than an item height
\* after scaling) and one that scrolls one and a half items the other way
WheelDeltaYs == {0, 5, 0 - 15 * cfg.itemHeight}

\* the id setTimeout returns: positive, and not the id of a pending timer
NewTimerId(pending) ==
  CHOOSE i \in 1 .. (Cardinality(pending) + 1) :
    /\ \A t \in pending : t.id # i
    /\ \A h \in 1 .. (i - 1) : \E t \in pending : t.id = h

\* handleWheeling: the offset it sets
HandleWheeling(deltaY) ==
  IF deltaY = 0 THEN scrollerTranslate
  ELSE UpdateScrollerWhileMoving(cfg, Len(optionGroups[ColKey]),
                                 scrollerTranslate + WheelDelta(cfg, deltaY))

\* handleWheel that never clears the previous timer
ClearTimeoutNever(pending, id) == pending

\* clearTimeout(wheelingTimer.current) when the ref is set
ClearTimeout(pending, id) ==
  IF id # 0 THEN {t \in pending : t.id # id} ELSE pending

\* handleWheel without the early return of wheel mode off
HandleWheelAlways(deltaY) ==
  LET pending == ClearTimeout(timers, wheelingTimer)
  IN /\ scrollerTranslate' = HandleWheeling(deltaY)
     /\ wheelingTimer' = NewTimerId(pending)
     /\ timers' = pending \cup
                    {[id |-> NewTimerId(pending),
                      options |-> optionGroups[ColKey],
                      value |-> value]}

HandleWheel(deltaY) ==
  IF cfg.wheelMode = "off"
  THEN UNCHANGED <<scrollerTranslate, timerVars>>
  ELSE LET pending == ClearTimeout(timers, wheelingTimer)
       IN /\ scrollerTranslate' = HandleWheeling(deltaY)
          /\ wheelingTimer' = NewTimerId(pending)
          /\ timers' = pending \cup
                         {[id |-> NewTimerId(pending),
                           options |-> optionGroups[ColKey],
                           value |-> value]}

Wheel(deltaY) ==
  /\ mounted
  /\ HandleWheel(deltaY)
  /\ lastOp' = Op("wheel", 0, FALSE)
  /\ calls' = <<>>
  /\ UNCHANGED <<configVars, value, focusedValue, registryVars, mounted, gestureVars>>

\* the timer fires: handleWheelEnd of the render that set it
WheelEnd ==
  \E t \in timers :
    LET s == HandleScrollerTranslateSettled(t.options, t.value)
    IN /\ timers' = timers \ {t}
       /\ calls' = s.calls
       /\ value' \in OwnerValues(s.calls)
       /\ scrollerTranslate' =
            IF mounted THEN SettleEffect(optionGroups, value', s.translate)
            ELSE scrollerTranslate
       /\ lastOp' = Op("wheelend", 0, s.threw)
       /\ UNCHANGED <<configVars, focusedValue, registryVars, mounted, gestureVars,
                      wheelingTimer>>

-----------------------------------------------------------------------------
(* Picker.Item click, the owner, unmounting the column *)

\* handleClick of a mounted item
ItemClick(it) ==
  /\ it \in Items /\ it \notin Unmounted
  /\ calls' = <<CallRecord(value, KeyOf(it), itemOpt[it].value)>>
  /\ value' \in OwnerValues(calls')
  /\ scrollerTranslate' = SettleEffect(optionGroups, value', scrollerTranslate)
  /\ lastOp' = Op("click", 0, FALSE)
  /\ UNCHANGED <<configVars, focusedValue, registryVars, mounted, gestureVars, timerVars>>

\* the owner changes the value prop on its own: a new value for the column
OwnerSet(v) ==
  /\ value[ColKey] # v
  /\ value' = [value EXCEPT ![ColKey] = v]
  /\ scrollerTranslate' = SettleEffect(optionGroups, value', scrollerTranslate)
  /\ lastOp' = Op("ownerset", 0, FALSE)
  /\ calls' = <<>>
  /\ UNCHANGED <<configVars, focusedValue, registryVars, mounted, gestureVars, timerVars>>

\* the column unmounts with its items: the listeners are removed, the items'
\* effect cleanups unregister their options and the useState cells of the
\* column are discarded; translateRef stays reachable from the closure of a
\* pending timer, which no cleanup clears
UnmountColumn ==
  /\ mounted
  /\ mounted' = FALSE
  /\ dom' = [dom EXCEPT ![ColKey] = <<>>]
  /\ itemOpt' = [it \in Items |-> IF it \in MountedItems(ColKey) THEN NoOption ELSE itemOpt[it]]
  /\ optionGroups' = [optionGroups EXCEPT ![ColKey] = <<>>]
  /\ touch' = [down |-> FALSE, startOffset |-> 0]
  /\ lastOp' = Op("unmount", 0, FALSE)
  /\ calls' = <<>>
  /\ startScrollerTranslate' = 0
  /\ startTouchY' = 0
  /\ isMoving' = FALSE
  /\ UNCHANGED <<configVars, value, focusedValue, scrollerTranslate, timerVars>>

-----------------------------------------------------------------------------
(* Picker.Item: the registerOption effect and its cleanup *)

ItemValues == 1 .. 2

\* an item mounts in column k at document position pos with value v: its node
\* is attached, then the effect registers a new option
MountItem(k, pos, v) ==
  /\ k = ColKey => mounted
  /\ Cardinality(Items \ Unmounted) < MaxMounted
  /\ pos \in 1 .. (Len(dom[k]) + 1)
  /\ LET it == CHOOSE i \in Unmounted : \A h \in Unmounted : i <= h
         option == [id |-> NewOptionId, value |-> v, element |-> it]
     IN /\ dom' = [dom EXCEPT ![k] = InsertAt(@, pos, it)]
        /\ itemOpt' = [itemOpt EXCEPT ![it] = option]
        /\ optionGroups' =
             PickerReducer(optionGroups,
                           [type |-> "REGISTER_OPTION", key |-> k, option |-> option], dom')
  /\ scrollerTranslate' = SettleEffect(optionGroups', value, scrollerTranslate)
  /\ lastOp' = Op("mount", 0, FALSE)
  /\ calls' = <<>>
  /\ UNCHANGED <<configVars, value, focusedValue, mounted, gestureVars, timerVars>>

\* an item unmounts: its node is detached, then the cleanup unregisters its option
UnmountItem(it) ==
  /\ it \in Items \ Unmounted
  /\ dom' = [dom EXCEPT ![KeyOf(it)] = RemoveItem(@, it)]
  /\ itemOpt' = [itemOpt EXCEPT ![it] = NoOption]
  /\ optionGroups' =
       PickerReducer(optionGroups,
                     [type |-> "UNREGISTER_OPTION", key |-> KeyOf(it), option |-> itemOpt[it]],
                     dom')
  /\ scrollerTranslate' = SettleEffect(optionGroups', value, scrollerTranslate)
  /\ lastOp' = Op("unmountitem", 0, FALSE)
  /\ calls' = <<>>
  /\ UNCHANGED <<configVars, value, focusedValue, mounted, gestureVars, timerVars>>

\* the value prop of a mounted item changes: the cleanup of the old effect
\* unregisters the old option, then the effect registers a new one
ChangeItemValue(it, v) ==
  /\ it \in Items \ Unmounted
  /\ itemOpt[it].value # v
  /\ LET option == [id |-> NewOptionId, value |-> v, element |-> it]
         removed == PickerReducer(optionGroups,
                                  [type |-> "UNREGISTER_OPTION", key |-> KeyOf(it),
                                   option |-> itemOpt[it]], dom)
     IN /\ itemOpt' = [itemOpt EXCEPT ![it] = option]
        /\ optionGroups' =
             PickerReducer(removed,
                           [type |-> "REGISTER_OPTION", key |-> KeyOf(it), option |-> option],
                           dom)
  /\ scrollerTranslate' = SettleEffect(optionGroups', value, scrollerTranslate)
  /\ lastOp' = Op("itemvalue", 0, FALSE)
  /\ calls' = <<>>
  /\ UNCHANGED <<configVars, value, focusedValue, dom, mounted, gestureVars, timerVars>>

\* the rendering layer moves the node at position j of column k behind its
\* successor (a keyed reorder): no effect of any item runs
MoveNode(k, j) ==
  /\ j \in 1 .. (Len(dom[k]) - 1)
  /\ dom' = [dom EXCEPT ![k] = [@ EXCEPT ![j] = dom[k][j + 1], ![j + 1] = dom[k][j]]]
  /\ lastOp' = Op("movenode", 0, FALSE)
  /\ calls' = <<>>
  /\ UNCHANGED <<configVars, value, focusedValue, itemOpt, optionGroups, mounted,
                 scrollerTranslate, gestureVars, timerVars>>

-----------------------------------------------------------------------------
(* Configurations and initial states *)

\* a destructuring default: `x = d` takes d when the prop is undefined
Default(x, d) == IF x = <<>> THEN d ELSE x[1]

\* the destructuring of the props in PickerRoot
PickerRootProps(p) ==
  [height |-> Default(p.height, DEFAULT_HEIGHT),
   itemHeight |-> Default(p.itemHeight, DEFAULT_ITEM_HEIGHT),
   selectedItemHeight |-> Default(p.selectedItemHeight, DEFAULT_ITEM_HEIGHT),
   topOffset |-> Default(p.topOffset, 0),
   wheelMode |-> Default(p.wheelMode, DEFAULT_WHEEL_MODE)]

\* props that pass none of the optional ones
NoProps ==
  [height |-> <<>>, itemHeight |-> <<>>, selectedItemHeight |-> <<>>, topOffset |-> <<>>,
   wheelMode |-> <<>>]

\* props that pass every field of the configuration c
Supplied(c) ==
  [height |-> <<c.height>>, itemHeight |-> <<c.itemHeight>>,
   selectedItemHeight |-> <<c.selectedItemHeight>>, topOffset |-> <<c.topOffset>>,
   wheelMode |-> <<c.wheelMode>>]

\* no component was rendered under ancestors of its own
NoSetup == [component |-> "", picker |-> TRUE, column |-> TRUE, threw |-> FALSE, error |-> ""]

\* the props of PickerRoot when the caller passes none of the optional ones
DefaultConfig ==
  [height |-> DEFAULT_HEIGHT, itemHeight |-> DEFAULT_ITEM_HEIGHT,
   selectedItemHeight |-> DEFAULT_ITEM_HEIGHT, topOffset |-> 0,
   wheelMode |-> DEFAULT_WHEEL_MODE]

Config(h, ih, sih, top, mode) ==
  [height |-> h, itemHeight |-> ih, selectedItemHeight |-> sih, topOffset |-> top,
   wheelMode |-> mode]

ColumnConfigs ==
  {Config(20, 4, 4, 0, "natural"), Config(21, 4, 2, 1, "normal"), Config(20, 4, 4, 0, "off")}

DragConfigs ==
  {DefaultConfig, Config(20, 4, 4, 0, "off"), Config(21, 4, 2, 1, "off")}

\* item heights 1 .. MaxGeometry; selected item heights 1 and 2 below, equal to
\* and 3 and 5 times the item height; an even height without and an odd height
\* with a top offset
ResolveConfigs ==
  {Config(4 * MaxGeometry + top, ih, sih, top, "off") :
     top \in 0 .. 1, ih \in 1 .. MaxGeometry,
     sih \in 1 .. (5 * MaxGeometry)} \cap
  {c \in [height : Nat, itemHeight : Nat, selectedItemHeight : Nat, topOffset : Nat,
          wheelMode : WheelModes] :
     c.selectedItemHeight \in {c.itemHeight - 2, c.itemHeight - 1, c.itemHeight,
                                3 * c.itemHeight, 5 * c.itemHeight}}

\* option values of a column of n items: all distinct, or the last one repeating
\* the value of the first
LayoutValue(layout, n, j) == IF layout = "repeating" /\ j = n THEN 1 ELSE j

\* the picker after its first renders with the props p: column ColKey holds n
\* items in document order, every effect has run, the column rests on its
\* selected index
InitProps(p, n, layout, M) ==
  /\ props = p
  /\ setup = NoSetup
  /\ cfg = PickerRootProps(p)
  /\ value = M
  /\ focusedValue = [k \in Keys |-> 0]
  /\ dom = [k \in Keys |-> IF k = ColKey THEN [j \in 1 .. n |-> j] ELSE <<>>]
  /\ itemOpt = [it \in Items |->
                  IF it <= n
                  THEN [id |-> it, value |-> LayoutValue(layout, n, it), element |-> it]
                  ELSE NoOption]
  /\ optionGroups = [k \in Keys |-> IF k = ColKey THEN [j \in 1 .. n |-> itemOpt[j]] ELSE <<>>]
  /\ mounted = TRUE
  /\ scrollerTranslate = SettleTranslate(cfg, SelectedIndex(optionGroups[ColKey], M[ColKey]))
  /\ startScrollerTranslate = 0
  /\ startTouchY = 0
  /\ isMoving = FALSE
  /\ wheelingTimer = 0
  /\ timers = {}
  /\ touch = [down |-> FALSE, startOffset |-> 0]
  /\ lastOp = Op("init", 0, FALSE)
  /\ calls = <<>>

\* the picker after its first renders with every prop of c passed
InitWith(c, n, layout, M) == InitProps(Supplied(c), n, layout, M)

Mapping(a, b) == [k \in Keys |-> IF k = ColKey THEN a ELSE b]

InitRegistry ==
  \E a \in ItemValues : InitWith(DefaultConfig, 0, "distinct", Mapping(a, 1))

InitColumn ==
  \E c \in ColumnConfigs, n \in 0 .. MaxOptions, layout \in {"distinct", "repeating"} :
    InitWith(c, n, layout, Mapping(1, 1))

InitDrag ==
  \E c \in DragConfigs, n \in 1 .. MaxDragOptions, a \in 1 .. MaxDragOptions :
    /\ a <= n
    /\ InitWith(c, n, "distinct", Mapping(a, 1))

InitResolve ==
  \E c \in ResolveConfigs, n \in 1 .. (MaxOptions + 1) :
    InitWith(c, n, "distinct", Mapping(1, 1))

-----------------------------------------------------------------------------
(* Setup of a component: the context hooks it calls before anything else *)

\* the message of the error usePickerData and usePickerActions throw
MissingPicker(componentName) ==
  "<" \o componentName \o " /> is missing a parent <Picker /> component."

\* the message of the error useColumnData throws
MissingColumn(componentName) ==
  "<" \o componentName \o " /> is missing a parent <Picker.Column /> component."

\* usePickerData: throws when no PickerRoot above provides the context
UsePickerData(provided, componentName) ==
  IF ~provided THEN [threw |-> TRUE, error |-> MissingPicker(componentName)]
  ELSE [threw |-> FALSE, error |-> ""]

\* usePickerActions: throws when no PickerRoot above provides the context
UsePickerActions(provided, componentName) ==
  IF ~provided THEN [threw |-> TRUE, error |-> MissingPicker(componentName)]
  ELSE [threw |-> FALSE, error |-> ""]

\* useColumnData that goes on with a default context when none is provided
UseColumnDataDefaulted(provided, componentName) ==
  [threw |-> FALSE, error |-> ""]

\* useColumnData: throws when no PickerColumn above provides the context
UseColumnData(provided, componentName) ==
  IF ~provided THEN [threw |-> TRUE, error |-> MissingColumn(componentName)]
  ELSE [threw |-> FALSE, error |-> ""]

\* the hooks PickerItem calls before its effect, in order: the first throw ends the render
PickerItemHooks(picker, column) ==
  IF UsePickerData(picker, "Picker.Item").threw THEN UsePickerData(picker, "Picker.Item")
  ELSE IF UsePickerActions(picker, "Picker.Item").threw
  THEN UsePickerActions(picker, "Picker.Item")
  ELSE UseColumnData(column, "Picker.Item")

\* the hooks PickerColumn calls, in order
PickerColumnHooks(picker) ==
  IF UsePickerData(picker, "Picker.Column").threw THEN UsePickerData(picker, "Picker.Column")
  ELSE UsePickerActions(picker, "Picker.Column")

\* a Picker.Item is rendered with value v where a PickerRoot is above it or not
\* (picker) and a Picker.Column of key k is above it or not (column); when no
\* hook throws its node is attached at position pos and its effect registers
SetupItem(k, pos, v, picker, column) ==
  /\ (k = ColKey /\ column) => mounted
  /\ Cardinality(Items \ Unmounted) < MaxMounted
  /\ pos \in 1 .. (Len(dom[k]) + 1)
  /\ setup' = [component |-> "Picker.Item", picker |-> picker, column |-> column,
               threw |-> PickerItemHooks(picker, column).threw,
               error |-> PickerItemHooks(picker, column).error]
  /\ IF PickerItemHooks(picker, column).threw
     THEN UNCHANGED <<registryVars, scrollerTranslate>>
     ELSE LET it == CHOOSE i \in Unmounted : \A h \in Unmounted : i <= h
              option == [id |-> NewOptionId, value |-> v, element |-> it]
          IN /\ dom' = [dom EXCEPT ![k] = InsertAt(@, pos, it)]
             /\ itemOpt' = [itemOpt EXCEPT ![it] = option]
             /\ optionGroups' =
                  PickerReducer(optionGroups,
                                [type |-> "REGISTER_OPTION", key |-> k, option |-> option],
                                dom')
             /\ scrollerTranslate' = SettleEffect(optionGroups', value, scrollerTranslate)
  /\ lastOp' = Op("setupitem", 0, PickerItemHooks(picker, column).threw)
  /\ calls' = <<>>
  /\ UNCHANGED <<props, cfg, value, focusedValue, mounted, gestureVars, timerVars>>

\* the Picker.Column of key ColKey is rendered where a PickerRoot is above it
\* or not; when no hook throws it mounts without items: new state cells and a
\* new timer ref, and its settle effect puts it on the offset of index 0
SetupColumn(picker) ==
  /\ ~mounted
  /\ setup' = [component |-> "Picker.Column", picker |-> picker, column |-> TRUE,
               threw |-> PickerColumnHooks(picker).threw,
               error |-> PickerColumnHooks(picker).error]
  /\ IF PickerColumnHooks(picker).threw
     THEN UNCHANGED <<mounted, scrollerTranslate, gestureVars, wheelingTimer>>
     ELSE /\ mounted' = TRUE
          /\ scrollerTranslate' = SettleTranslate(cfg, 0)
          /\ startScrollerTranslate' = 0
          /\ startTouchY' = 0
          /\ isMoving' = FALSE
          /\ touch' = [down |-> FALSE, startOffset |-> 0]
          /\ wheelingTimer' = 0
  /\ lastOp' = Op("setupcolumn", 0, PickerColumnHooks(picker).threw)
  /\ calls' = <<>>
  /\ UNCHANGED <<props, cfg, value, focusedValue, registryVars, timers>>

\* the props of the setup specification: none, each optional prop alone, and all
SetupProps ==
  {NoProps, Supplied(Config(20, 4, 2, 1, "natural"))} \cup
  {[NoProps EXCEPT ![f] = Supplied(Config(20, 4, 2, 1, "natural"))[f]] :
     f \in {"height", "itemHeight", "selectedItemHeight", "topOffset", "wheelMode"}}

InitSetup ==
  \E p \in SetupProps : InitProps(p, 0, "distinct", Mapping(1, 1))

NextSetup ==
  \/ \E k \in Keys, pos \in 1 .. (MaxMounted + 1), v \in ItemValues, picker \in BOOLEAN,
        column \in BOOLEAN :
       SetupItem(k, pos, v, picker, column)
  \/ \E picker \in BOOLEAN : SetupColumn(picker)
  \/ \E it \in Items : UnmountItem(it)
  \/ UnmountColumn

-----------------------------------------------------------------------------
(* Specifications *)

\* in the column specification every touch starts in the middle of the pointer grid
ColumnStartY == (MaxPointer \div 2) * cfg.itemHeight

\* the values the owner sets on its own: every option value and 0, which no
\* option has
OwnerSetValues == 0 .. Len(optionGroups[ColKey])

\* in the drag specification every touch starts at the bottom of the pointer
\* grid and moves up to MaxPointer half items up or one half item down
DragStartY == MaxPointer * cfg.itemHeight
DragYs == {m * cfg.itemHeight : m \in 0 .. (MaxPointer + 1)}

NextRegistry ==
  \/ \E k \in Keys, pos \in 1 .. (MaxMounted + 1), v \in ItemValues : MountItem(k, pos, v)
  \/ \E it \in Items : UnmountItem(it)
  \/ \E it \in Items, v \in ItemValues : ChangeItemValue(it, v)
  \/ \E k \in Keys, j \in 1 .. MaxMounted : MoveNode(k, j)

\* One input device at a time: while the wheel is in use (a debounce timer is
\* pending) no touch starts, and while a finger is down no wheel event arrives,
\* except in wheel mode off, where the wheel does nothing; every touch moves
\* at least once before it ends (a tap is part of SpecDrag).
NextColumn ==
  \/ (timers = {} /\ TouchStart(ColumnStartY))
  \/ \E y \in PointerYs : TouchMove(y)
  \/ (isMoving /\ TouchEnd)
  \/ (isMoving /\ TouchCancel)
  \/ \E deltaY \in WheelDeltaYs : (~touch.down \/ cfg.wheelMode = "off") /\ Wheel(deltaY)
  \/ WheelEnd
  \/ \E it \in Items : ItemClick(it)
  \/ \E v \in OwnerSetValues : OwnerSet(v)
  \/ UnmountColumn

NextDrag ==
  \/ TouchStart(DragStartY)
  \/ \E y \in DragYs : TouchMove(y)
  \/ TouchEnd
  \/ TouchCancel

\* in the resolution specification the column is dragged once, from its
\* initial rest to any offset of the half-pixel grid, and released
ResolveStartY == 2 * MaxGeometry * (MaxOptions + 1)
ResolveYs == 0 .. (ResolveStartY + 2 * MaxGeometry)

NextResolve ==
  \/ (lastOp.op = "init" /\ TouchStart(ResolveStartY))
  \/ \E y \in ResolveYs : TouchMove(y)
  \/ TouchEnd

SpecRegistry == InitRegistry /\ [][NextRegistry]_vars
SpecColumn == InitColumn /\ [][NextColumn]_vars
SpecDrag == InitDrag /\ [][NextDrag]_vars
SpecResolve == InitResolve /\ [][NextResolve]_vars

SpecSetup == InitSetup /\ [][NextSetup]_vars

SpecColumnFair == SpecColumn /\ WF_vars(WheelEnd)

-----------------------------------------------------------------------------
(* Properties *)

Options == optionGroups[ColKey]

C2_TouchEndSettles ==
  [][(lastOp'.op = "touchend" /\ isMoving /\ Len(Options) >= 1) =>
       LET index == NextActiveIndex(cfg, Len(Options), scrollerTranslate)
       IN /\ Len(calls') = 1
          /\ calls'[1].key = ColKey
          /\ calls'[1].v = Options[index + 1].value
          /\ ~isMoving'
          /\ ~touch'.down
          /\ ~calls'[1].ret =>
               scrollerTranslate' =
                 cfg.height - cfg.selectedItemHeight
                   - 2 * index * cfg.itemHeight - 2 * cfg.topOffset
    ]_vars

\* C2 witness: a drag ended on the option already selected, the second of the
\* column; change declined and the column rests on the settle offset of index 1
C2_Witness ==
  /\ lastOp.op = "touchend"
  /\ Len(calls) = 1
  /\ ~calls[1].ret
  /\ ~isMoving
  /\ Len(Options) = 2
  /\ calls[1].v = Options[2].value
  /\ Options[2].value # Options[1].value
  /\ scrollerTranslate = SettleTranslate(cfg, 1)

\* C3: with selectedItemHeight = itemHeight, a touch that starts at the settle
\* offset of index i, moves by -k item heights (i + k a valid index) and ends
\* calls change with the value of option i + k.
C3_DragByItems ==
  [][(lastOp'.op = "touchend" /\ lastOp.op = "touchmove" /\ isMoving
        /\ cfg.selectedItemHeight = cfg.itemHeight) =>
       \A i \in 0 .. (Len(Options) - 1), k \in 0 .. (Len(Options) - 1) :
         (/\ i + k <= Len(Options) - 1
          /\ startScrollerTranslate =
               cfg.height - cfg.selectedItemHeight - 2 * i * cfg.itemHeight - 2 * cfg.topOffset
          /\ lastOp.y - startTouchY = 0 - 2 * k * cfg.itemHeight)
         => (Len(calls') = 1 /\ calls'[1].v = Options[i + k + 1].value)
    ]_vars

\* C3 witness: 5 options, height 216, item heights 36, no top offset; option 3
\* (index 2) was selected and a drag ended with change called for option 5
C3_Witness ==
  /\ lastOp.op = "touchend"
  /\ cfg.height = 216 /\ cfg.itemHeight = 36 /\ cfg.selectedItemHeight = 36
  /\ cfg.topOffset = 0
  /\ Len(Options) = 5
  /\ Len(calls) = 1
  /\ calls[1].M[ColKey] = Options[3].value
  /\ calls[1].v = Options[5].value
  /\ calls[1].ret

\* C4: with at least one option, a settle at an offset >= maxOffset, the
\* offset that centers the first option, resolves index 0, and a settle at an
\* offset <= minOffset, the offset that centers the last option, resolves the
\* last index.
C4_ClampedResolution ==
  [][(lastOp'.op = "touchend" /\ isMoving /\ Len(Options) >= 1) =>
       /\ scrollerTranslate >= SettleTranslate(cfg, 0) =>
            (Len(calls') = 1 /\ calls'[1].v = Options[1].value)
       /\ scrollerTranslate <= SettleTranslate(cfg, Len(Options) - 1) =>
            (Len(calls') = 1 /\ calls'[1].v = Options[Len(Options)].value)
    ]_vars

\* C4 witness: with a selected item height other than the item height, a
\* drag was released at or below the offset that centers the last of several
\* options, change was called for the last option and the owner kept the value
C4_Witness ==
  /\ lastOp.op = "touchend"
  /\ cfg.selectedItemHeight # cfg.itemHeight
  /\ Len(Options) >= 2
  /\ Len(calls) = 1
  /\ calls[1].v = Options[Len(Options)].value
  /\ value[ColKey] = Options[1].value
  /\ scrollerTranslate <= SettleTranslate(cfg, Len(Options) - 1)

\* C5: a settle at the settle offset of a valid index i resolves an index
\* whose settle offset is that of i (the option values of the column are
\* 1 .. n in order, so the index resolved is the value called minus 1).
C5_RoundTrip ==
  [][(lastOp'.op = "touchend" /\ isMoving) =>
       \A i \in 0 .. (Len(Options) - 1) :
         scrollerTranslate = SettleTranslate(cfg, i) =>
           /\ Len(calls') = 1
           /\ SettleTranslate(cfg, calls'[1].v - 1) = SettleTranslate(cfg, i)
    ]_vars

\* C6: a touch cancel sets the offset back to the offset the column had when
\* the touch started, leaves the column idle and calls no change.
C6_CancelRestores ==
  [][(lastOp'.op = "touchcancel" /\ touch.down /\ (isMoving \/ lastOp.op = "touchstart")) =>
       /\ scrollerTranslate' = touch.startOffset
       /\ ~isMoving'
       /\ ~touch'.down
       /\ calls' = <<>>
       /\ value' = value
    ]_vars

\* C6 witness: a touch that moved was cancelled: the drag state is reset and
\* the column is back on an offset other than 0
C6_Witness ==
  /\ lastOp.op = "touchcancel"
  /\ ~isMoving
  /\ ~touch.down
  /\ startScrollerTranslate = 0
  /\ scrollerTranslate # 0
  /\ calls = <<>>

\* C7: in wheel mode off a wheel event changes neither the offset, the drag
\* state nor the timer, and calls no change.
C7_WheelOff ==
  [][(lastOp'.op = "wheel" /\ cfg.wheelMode = "off") =>
       /\ UNCHANGED <<scrollerTranslate, startScrollerTranslate, startTouchY, isMoving,
                      wheelingTimer, timers, value, focusedValue, optionGroups>>
       /\ calls' = <<>>
    ]_vars

\* C7 witness: a wheel event arrived in mode off in the middle of a drag
C7_Witness ==
  /\ lastOp.op = "wheel"
  /\ cfg.wheelMode = "off"
  /\ isMoving
  /\ scrollerTranslate # startScrollerTranslate

\* C8: at most one debounce timer is pending; a wheel event in a mode other
\* than off settles nothing and leaves exactly the timer it started pending;
\* the settle happens when a pending timer fires, it consumes that timer and,
\* on a column with options, calls change once; and a pending timer leads to
\* a settle.
C8_WheelDebounce ==
  /\ [](Cardinality(timers) <= 1)
  /\ [][ /\ (lastOp'.op = "wheel" /\ cfg.wheelMode # "off") =>
              /\ timers' = {[id |-> wheelingTimer', options |-> Options, value |-> value]}
              /\ calls' = <<>>
         /\ lastOp'.op = "wheelend" =>
              /\ Cardinality(timers) = 1
              /\ timers' = {}
              /\ \A t \in timers : Len(t.options) >= 1 => Len(calls') = 1
         /\ calls' # <<>> => lastOp'.op \in {"wheelend", "touchend", "click"}
       ]_vars
  /\ (timers # {}) ~> (lastOp.op = "wheelend")

\* C8 witness: the timer of a burst of wheel events fired and settled
C8_Witness ==
  /\ lastOp.op = "wheelend"
  /\ timers = {}
  /\ Len(calls) = 1
  /\ wheelingTimer # 0

\* whether the option group of key k lists its options in document order
InDocumentOrder(groups, d, k) ==
  \A i, j \in 1 .. Len(groups[k]) :
    i < j => /\ DomPos(d[k], groups[k][i].element) > 0
             /\ DomPos(d[k], groups[k][i].element) < DomPos(d[k], groups[k][j].element)

\* C9: a registration leaves the group of its key in document order, whatever
\* the order before, and an unregistration keeps a group that is in document
\* order in document order.
C9_SortedByDomNode ==
  [][\A k \in Keys :
       /\ (lastOp'.op \in {"mount", "itemvalue"} /\ optionGroups'[k] # optionGroups[k])
            => InDocumentOrder(optionGroups', dom', k)
       /\ (lastOp'.op = "unmountitem" /\ InDocumentOrder(optionGroups, dom, k))
            => InDocumentOrder(optionGroups', dom', k)
    ]_vars

\* C9 witness: an item mounted above an item registered before it, and the
\* group lists the later registration first
C9_Witness ==
  \E k \in Keys :
    /\ lastOp.op = "mount"
    /\ Len(optionGroups[k]) = 2
    /\ optionGroups[k][1].id > optionGroups[k][2].id
    /\ dom[k] = <<optionGroups[k][1].element, optionGroups[k][2].element>>

\* C10: when the nodes of two registered options of a key are moved into the
\* reverse document order, the group of the key lists the options in the new
\* document order, without a registration.
C10_ReorderWithoutRegistration ==
  [][\A k \in Keys :
       (lastOp'.op = "movenode" /\ dom'[k] # dom[k] /\ Len(optionGroups[k]) = 2
          /\ InDocumentOrder(optionGroups, dom, k))
       => InDocumentOrder(optionGroups', dom', k)
    ]_vars

\* C11: a Picker.Column rendered without a PickerRoot above it, and a
\* Picker.Item rendered without a PickerRoot or without a Picker.Column above
\* it, throws an error whose message names the component and the missing
\* ancestor (the PickerRoot when both are missing), and changes neither the
\* registry nor the column; with its ancestors above it the render does not throw.
C11_MisuseIsFatal ==
  [][(lastOp'.op \in {"setupitem", "setupcolumn"}) =>
       LET missingPicker == ~setup'.picker
           missingColumn == setup'.component = "Picker.Item" /\ ~setup'.column
       IN /\ setup'.threw = (missingPicker \/ missingColumn)
          /\ lastOp'.threw = setup'.threw
          /\ missingPicker =>
               setup'.error =
                 "<" \o setup'.component \o " /> is missing a parent <Picker /> component."
          /\ (~missingPicker /\ missingColumn) =>
               setup'.error = "<Picker.Item /> is missing a parent <Picker.Column /> component."
          /\ setup'.threw =>
               /\ UNCHANGED <<optionGroups, dom, itemOpt, mounted, scrollerTranslate, value>>
               /\ calls' = <<>>
    ]_vars

\* C11 witness: a Picker.Item rendered under a PickerRoot but outside every
\* Picker.Column threw, while an item registered before is still the only option
C11_Witness ==
  /\ lastOp.op = "setupitem"
  /\ setup.picker /\ ~setup.column
  /\ setup.threw
  /\ Len(optionGroups[ColKey]) = 1
  /\ Cardinality(Items \ Unmounted) = 1

\* C12: on a column without options a focus update during a move, a touch end
\* after a move and a firing wheel timer do not throw, and call no change.
C12_EmptyGroupNoThrow ==
  [][(\/ (lastOp'.op = "touchmove" /\ Len(Options) = 0)
      \/ (lastOp'.op = "touchend" /\ isMoving /\ Len(Options) = 0)
      \/ (lastOp'.op = "wheelend" /\ \A t \in timers : Len(t.options) = 0)) =>
       /\ ~lastOp'.threw
       /\ calls' = <<>>
    ]_vars

\* C13: an omitted selectedItemHeight equals the effective itemHeight, an
\* omitted height is 216, an omitted itemHeight 36, an omitted topOffset 0 and
\* an omitted wheelMode off; a prop that is passed is taken as passed.
C13_Defaults ==
  /\ props.selectedItemHeight = <<>> => cfg.selectedItemHeight = cfg.itemHeight
  /\ props.height = <<>> => cfg.height = 216
  /\ props.itemHeight = <<>> => cfg.itemHeight = 36
  /\ props.topOffset = <<>> => cfg.topOffset = 0
  /\ props.wheelMode = <<>> => cfg.wheelMode = "off"
  /\ \A f \in DOMAIN props : props[f] # <<>> => cfg[f] = props[f][1]

\* transitionDuration of columnStyle, in milliseconds
TransitionDuration == IF isMoving THEN 0 ELSE 300

\* C14: while a mounted column tracks live input, a drag that has moved or
\* wheel input whose debounce timer is still pending, its transition duration
\* is 0; while it is idle (no finger down, no timer pending) the duration is
\* the fixed 300 ms.
C14_TransitionFlag ==
  mounted =>
    /\ (isMoving \/ timers # {}) => TransitionDuration = 0
    /\ (~touch.down /\ ~isMoving /\ timers = {}) => TransitionDuration = 300

\* Math.pow(d, 0.8) of a whole number d of pixels on a grid of 1/K pixel,
\* rounded down: the largest r with (r/K)^5 <= d^4, that is
\* r^3 / K^3 <= d^4 K^2 / r^2
Pow08Floor(d, K) ==
  IF d = 0 THEN 0
  ELSE CHOOSE r \in 1 .. (K * d) :
         /\ FracLeq(r * r * r, K * K * K, d * d * d * d * K * K, r * r)
         /\ ~FracLeq((r + 1) * (r + 1) * (r + 1), K * K * K, d * d * d * d * K * K,
                     (r + 1) * (r + 1))

\* the curve overscroll^0.8 at overscrolls of 1 .. MaxOverscroll + 1 pixels,
\* bracketed on a grid of 1/256 pixel (value in [Pow08Floor, Pow08Floor + 1)):
\* it rises strictly from each pixel to the next, its rise per pixel shrinks
\* strictly, and MathPow08 is its value rounded down to half pixels
RubberBandCurve ==
  LET K == 256
      lower(d) == Pow08Floor(d, K)
      upper(d) == IF d = 0 THEN 0 ELSE Pow08Floor(d, K) + 1
  IN \A d \in 1 .. MaxOverscroll :
       /\ lower(d + 1) >= upper(d)
       /\ upper(d + 1) - lower(d) < lower(d) - upper(d - 1)
       /\ MathPow08(2 * d) = Pow08Floor(d, 2)

\* C15: a move to a raw offset inside [minOffset, maxOffset], the offsets that
\* center the last and the first option, sets the raw offset; a move to a raw
\* offset beyond a bound sets the offset at the distance overscroll^0.8 beyond
\* that bound; and overscroll^0.8 rises strictly with the overscroll, by
\* strictly less for each further pixel.
C15_RubberBand ==
  [][(lastOp'.op = "touchmove" /\ Len(Options) >= 1) =>
       LET raw == startScrollerTranslate + lastOp'.y - startTouchY
           minOffset == SettleTranslate(cfg, Len(Options) - 1)
           maxOffset == SettleTranslate(cfg, 0)
       IN /\ (minOffset <= raw /\ raw <= maxOffset) => scrollerTranslate' = raw
          /\ raw < minOffset => scrollerTranslate' = minOffset - MathPow08(minOffset - raw)
          /\ raw > maxOffset => scrollerTranslate' = maxOffset + MathPow08(raw - maxOffset)
          /\ RubberBandCurve
    ]_vars

\* the rubber-band statement of C15 with the bounds the code computes
RubberBandOnCodeBounds ==
  [][(lastOp'.op = "touchmove" /\ Len(Options) >= 1) =>
       LET raw == startScrollerTranslate + lastOp'.y - startTouchY
           minT == MinTranslate(cfg, Len(Options))
           maxT == MaxTranslate(cfg)
       IN /\ (minT <= raw /\ raw <= maxT) => scrollerTranslate' = raw
          /\ raw < minT => scrollerTranslate' = minT - MathPow08(minT - raw)
          /\ (raw >= minT /\ raw > maxT) => scrollerTranslate' = maxT + MathPow08(raw - maxT)
          /\ RubberBandCurve
    ]_vars

\* C16: a move during a drag sets the offset to the rubber-band clamp of
\* dragStartOffset + (pointerY - dragStartPointerY), and publishes as focus of
\* the column the value of the option at the index resolved from the offset
\* this move sets.
C16_MoveFocus ==
  [][(lastOp'.op = "touchmove" /\ Len(Options) >= 1) =>
       /\ scrollerTranslate' =
            UpdateScrollerWhileMoving(cfg, Len(Options),
                                      startScrollerTranslate + lastOp'.y - startTouchY)
       /\ focusedValue'[ColKey] =
            Options[NextActiveIndex(cfg, Len(Options), scrollerTranslate') + 1].value
    ]_vars

\* C17: once the column is unmounted no wheel timer of it fires a settle and
\* no change is called for it.
C17_NoSettleAfterUnmount ==
  [][~mounted => (lastOp'.op # "wheelend" /\ calls' = <<>>)]_vars

\* C18: the option group of every key holds exactly the options of the items
\* mounted under the key, one each, carrying the item's value; and when an item
\* that shares its value with another mounted item of its key unmounts or
\* changes its value, the option of the other item stays in the group.
C18_OneOptionPerItem ==
  /\ [](\A k \in Keys :
          /\ Len(optionGroups[k]) = Len(dom[k])
          /\ \A it \in MountedItems(k) :
               /\ itemOpt[it].element = it
               /\ Cardinality({j \in 1 .. Len(optionGroups[k]) :
                                 optionGroups[k][j] = itemOpt[it]}) = 1)
  /\ [][\A it, other \in Items \ Unmounted :
          (/\ lastOp'.op \in {"unmountitem", "itemvalue"}
           /\ it # other
           /\ KeyOf(it) = KeyOf(other)
           /\ itemOpt[it].value = itemOpt[other].value
           /\ itemOpt'[it] # itemOpt[it])
          => /\ itemOpt'[other] = itemOpt[other]
             /\ \E j \in 1 .. Len(optionGroups'[KeyOf(other)]) :
                  optionGroups'[KeyOf(other)][j] = itemOpt[other]
       ]_vars

\* C18 witness: an item changed its value while another item of its key was
\* mounted, and the two options of the group now differ in value: of the two
\* item values, the other item has the one this item had before
C18_Witness ==
  \E k \in Keys :
    /\ lastOp.op = "itemvalue"
    /\ Len(optionGroups[k]) = 2
    /\ optionGroups[k][1].value # optionGroups[k][2].value
    /\ \E j \in 1 .. 2 : optionGroups[k][j].id = 3

\* the column rests on the settle offset of its selected index
Settled ==
  scrollerTranslate = SettleTranslate(cfg, SelectedIndex(Options, value[ColKey]))

\* the column is idle: mounted, no drag in progress and no wheel timer pending
Idle == mounted /\ ~touch.down /\ ~isMoving /\ timers = {}

\* C19: when a settle, a click or a value change by the owner leaves a column
\* with options idle, the owner having fed back the value committed by the
\* step (if any), and the column was settled when it was last idle before
\* the step, the offset is the settle offset of the selected index: the first
\* index whose option has the value of the key, or 0.
C19_IdleSettled ==
  [][(/\ lastOp'.op \in {"touchend", "wheelend", "click", "ownerset"}
      /\ Idle'
      /\ Len(Options') >= 1
      /\ Idle => Settled
      /\ \A j \in 1 .. Len(calls') :
           calls'[j].cb # <<>> => value' = calls'[j].cb[1].value)
     => Settled'
    ]_vars

\* C20: on a mounted column with at least one option the index resolved from
\* the current offset lies in 0 .. optionCount - 1, and no focus update or
\* settle throws for want of an option at the resolved index.
C20_IndexInRange ==
  /\ []((mounted /\ Len(Options) >= 1) =>
          NextActiveIndex(cfg, Len(Options), scrollerTranslate) \in 0 .. (Len(Options) - 1))
  /\ [][(\/ (lastOp'.op \in {"touchmove", "touchend"} /\ Len(Options) >= 1)
         \/ (lastOp'.op = "wheelend" /\ \A t \in timers : Len(t.options) >= 1))
        => ~lastOp'.threw]_vars

\* C20 witness: with a selected item height other than the item height, a
\* move left the column exactly half an item below the offset that centers
\* one of at least 3 options, or in overscroll beyond the code's lower bound
C20_Witness ==
  /\ lastOp.op = "touchmove"
  /\ ~lastOp.threw
  /\ cfg.selectedItemHeight # cfg.itemHeight
  /\ Len(Options) >= 3
  /\ \/ \E i \in 0 .. (Len(Options) - 2) :
          scrollerTranslate = SettleTranslate(cfg, i) - cfg.itemHeight
     \/ scrollerTranslate < MinTranslate(cfg, Len(Options))

====
